---- MODULE Spec2Model ----
(***************************************************************************)
(* Model of soln2ck_uq.write: the conversion of a Cantera solution object  *)
(* into a Chemkin mechanism file, with a per-reaction scale factor.        *)
(*                                                                         *)
(* Text is modelled as sequences of one-character strings where the code   *)
(* measures or concatenates it (species names, the species block, the      *)
(* reaction equations).  The file is a sequence of line records.           *)
(* Of the Arrhenius triple only the pre-exponential field (arrhenius[0])   *)
(* is modelled; the model's numbers are naturals, for which the double     *)
(* arithmetic of the code is exact.                                        *)
(* The objects come from Cantera: every read of a reaction's efficiencies  *)
(* property builds its own dict, so the two reads of lines 243-244 (and    *)
(* 297-298) give two dicts with the same entries.                          *)
(***************************************************************************)
EXTENDS Integers, Sequences, FiniteSets

VARIABLES trimmed_solution, factor, fname, f, written, disk, reac_index, pc, err

vars == <<trimmed_solution, factor, fname, f, written, disk, reac_index, pc, err>>

(* ---------------------------- bounds ---------------------------------- *)
MaxReactions == 2
MaxOrder == 4
MaxSpecies == 3

(* ------------------------ program constants --------------------------- *)
SpeciesFieldWidth == 16
SpeciesLineWidth == 70
SpeciesMargin == 3

(* ------------------------- optional values ---------------------------- *)
None == [none |-> TRUE]
Some(x) == [none |-> FALSE, v |-> x]

(* ------------------------------ text ----------------------------------- *)
Chars(c, n) == [i \in 1..n |-> c]

H2 == <<"H", "2">>
O2 == <<"O", "2">>
AR == <<"A", "R">>
HE == <<"H", "E">>

InSeq(x, s) == \E i \in 1..Len(s) : s[i] = x

RECURSIVE Pow10(_)
Pow10(k) == IF k = 0 THEN 1 ELSE 10 * Pow10(k - 1)

RECURSIVE NumDigits(_)
NumDigits(v) == IF v < 10 THEN 1 ELSE 1 + NumDigits(v \div 10)

(* The number c * 10^x: the products with 10 ** 3, 10 ** 6 and 10 ** 9   *)
(* are kept as a coefficient and a decimal exponent.                      *)
Times10(c, x) == [c |-> c, x |-> x]

(* '{:.3E}'.format(n): four significant digits, ties to even, as the      *)
(* mantissa m (d.ddd read as an integer 1000..9999) and the exponent e.    *)
Format3E(n) ==
    LET d == NumDigits(n.c) - 1
    IN  IF d <= 3
        THEN [fmt |-> "3E", m |-> n.c * Pow10(3 - d), e |-> d + n.x]
        ELSE LET unit == Pow10(d - 3)
                 q == n.c \div unit
                 r == n.c % unit
                 up == (2 * r > unit) \/ (2 * r = unit /\ q % 2 = 1)
                 m == IF up THEN q + 1 ELSE q
             IN  IF m = 10000
                 THEN [fmt |-> "3E", m |-> 1000, e |-> d + n.x + 1]
                 ELSE [fmt |-> "3E", m |-> m, e |-> d + n.x]

(* A float that reaches '{:>9}'.format() without having been formatted.    *)
Unformatted(v) == [fmt |-> "float", v |-> v]

(* eliminate(input_string, ' ', 'single'), lines 38-51 *)
eliminate(input_string, char_to_replace) ==
    SelectSeq(input_string, LAMBDA c : c # char_to_replace)

RECURSIVE SumValues(_, _)
SumValues(fn, S) ==
    IF S = {} THEN 0
    ELSE LET x == CHOOSE y \in S : TRUE
         IN  fn[x] + SumValues(fn, S \ {x})

(* sum(equation_object.reactants.values()), lines 76 and 117 *)
coeff_sum(equation_object) ==
    SumValues(equation_object.reactants, DOMAIN equation_object.reactants)

(* build_arrhenius, lines 67-106: arrhenius[0] *)
build_arrhenius(equation_object, equation_type, uf) ==
    LET pre_exponential_factor == equation_object.rate * uf
        order == coeff_sum(equation_object)
    IN  IF equation_type = "ElementaryReaction"
        THEN IF order = 1 THEN Format3E(Times10(pre_exponential_factor, 0))
             ELSE IF order = 2 THEN Format3E(Times10(pre_exponential_factor, 3))
             ELSE IF order = 3 THEN Format3E(Times10(pre_exponential_factor, 6))
             ELSE Unformatted(pre_exponential_factor)
        ELSE IF equation_type = "ThreeBodyReaction"
        THEN IF order = 1 THEN Format3E(Times10(pre_exponential_factor, 3))
             ELSE IF order = 2 THEN Format3E(Times10(pre_exponential_factor, 6))
             ELSE Unformatted(pre_exponential_factor)
        ELSE Format3E(Times10(pre_exponential_factor, 0))

(* build_modified_arrhenius, lines 108-152: arrhenius_high[0], arrhenius_low[0] *)
build_modified_arrhenius(equation_object, t_range, uf) ==
    LET order == coeff_sum(equation_object)
    IN  IF t_range = "high"
        THEN LET pre_exponential_factor == equation_object.high_rate * uf
             IN  IF order = 1 THEN Format3E(Times10(pre_exponential_factor, 0))
                 ELSE IF order = 2 THEN Format3E(Times10(pre_exponential_factor, 3))
                 ELSE IF order = 3 THEN Format3E(Times10(pre_exponential_factor, 6))
                 ELSE Unformatted(pre_exponential_factor)
        ELSE LET pre_exponential_factor == equation_object.low_rate * uf
             IN  IF order = 1 THEN Format3E(Times10(pre_exponential_factor, 3))
                 ELSE IF order = 2 THEN Format3E(Times10(pre_exponential_factor, 6))
                 ELSE IF order = 3 THEN Format3E(Times10(pre_exponential_factor, 9))
                 ELSE Unformatted(pre_exponential_factor)

(* build_species_string, lines 173-190: the loop from species sp_index on *)
RECURSIVE species_loop(_, _, _, _)
species_loop(species_names, sp_index, species_list_string, line) ==
    IF sp_index > Len(species_names) THEN species_list_string
    ELSE LET sp_string == species_names[sp_index]
             length_new == Len(sp_string)
             length_string == Len(species_list_string)
             total == length_new + length_string + SpeciesMargin
             wrap == total >= SpeciesLineWidth * line
             padding == IF SpeciesFieldWidth - length_new > 0
                        THEN Chars(" ", SpeciesFieldWidth - length_new)
                        ELSE <<>>
         IN  species_loop(species_names, sp_index + 1,
                 (IF wrap THEN Append(species_list_string, "\n")
                          ELSE species_list_string) \o sp_string \o padding,
                 IF wrap THEN line + 1 ELSE line)

build_species_string(species_names) == species_loop(species_names, 1, <<>>, 1)

(* ------------------------- the input objects --------------------------- *)
Digits == <<"1", "2", "3", "4", "5", "6", "7", "8", "9">>

(* equation_object.reactants: order molecules in all, of H2 and O2 *)
Reactants(order) ==
    IF order = 1 THEN [s \in {H2} |-> 1]
    ELSE [s \in {H2, O2} |-> IF s = H2 THEN order - 1 ELSE 1]

(* The text of reaction_equations() for these reactants, spaces included. *)
LeftSide(order) ==
    IF order = 1 THEN H2
    ELSE IF order = 2 THEN H2 \o <<" ", "+", " ">> \o O2
    ELSE <<Digits[order - 1], " ">> \o H2 \o <<" ", "+", " ">> \o O2

Equation(type, order) ==
    IF type = "ElementaryReaction"
    THEN LeftSide(order) \o <<" ", "<", "=", ">", " ", "P">>
    ELSE IF type = "ThreeBodyReaction"
    THEN LeftSide(order) \o <<" ", "+", " ", "M", " ", "<", "=", ">", " ", "P", " ", "+", " ", "M">>
    ELSE LeftSide(order) \o <<" ", "(", "+", "M", ")", " ", "<", "=", ">", " ", "P", " ", "(", "+", "M", ")">>

ElementaryReaction(order, A, dup) ==
    [type |-> "ElementaryReaction", equation |-> Equation("ElementaryReaction", order),
     reactants |-> Reactants(order), rate |-> A, duplicate |-> dup]

ThreeBodyReaction(order, A, eff, dup) ==
    [type |-> "ThreeBodyReaction", equation |-> Equation("ThreeBodyReaction", order),
     reactants |-> Reactants(order), rate |-> A, efficiencies |-> eff,
     duplicate |-> dup]

FalloffReaction(order, Ahigh, Alow, params, eff, dup) ==
    [type |-> "FalloffReaction", equation |-> Equation("FalloffReaction", order),
     reactants |-> Reactants(order), high_rate |-> Ahigh, low_rate |-> Alow,
     parameters |-> params, efficiencies |-> eff, duplicate |-> dup]

(* Third-body efficiencies, in tenths; AR and HE are in no species list. *)
EfficiencyOf(s) == IF s = H2 THEN 25 ELSE IF s = AR THEN 7 ELSE 5
EfficiencyMap(S) == [s \in S |-> EfficiencyOf(s)]
EfficiencyMaps == {EfficiencyMap(S) : S \in SUBSET {H2, AR, HE}}

PreExponentials == {3, 12345, 99995}
LowPreExponentials == {7}
FalloffParameters == {SubSeq(<<6, 1, 9, 4>>, 1, k) : k \in 0..4}

(* Every combination of kind, order, rate, efficiencies, parameters, flag. *)
AllReactions ==
    {ElementaryReaction(o, A, d) :
        o \in 1..MaxOrder, A \in PreExponentials, d \in BOOLEAN}
    \cup {ThreeBodyReaction(o, A, e, d) :
        o \in 1..MaxOrder, A \in PreExponentials, e \in EfficiencyMaps, d \in BOOLEAN}
    \cup {FalloffReaction(o, A, L, p, e, d) :
        o \in 1..MaxOrder, A \in PreExponentials, L \in LowPreExponentials,
        p \in FalloffParameters, e \in EfficiencyMaps, d \in BOOLEAN}

(* A few reactions of each kind, for the mechanisms of several reactions. *)
SomeReactions ==
    {ElementaryReaction(2, 12345, d) : d \in BOOLEAN}
    \cup {ThreeBodyReaction(2, 12345, e, d) :
        e \in {EfficiencyMap({}), EfficiencyMap({H2, AR})}, d \in BOOLEAN}
    \cup {FalloffReaction(2, 12345, 7, p, e, d) :
        p \in {<<>>, <<6, 1, 9>>},
        e \in {EfficiencyMap({}), EfficiencyMap({H2, AR})}, d \in BOOLEAN}

PlainReaction == ElementaryReaction(2, 12345, FALSE)

SpeciesNames == {H2, Chars("P", 15), Chars("Q", 16), Chars("R", 40)}

SpeciesLists ==
    {s \in UNION {[1..n -> SpeciesNames] : n \in 0..MaxSpecies} :
        \A i, j \in 1..Len(s) : i # j => s[i] # s[j]}

Solutions ==
    {[species_names |-> <<H2, O2>>, reactions |-> r] :
        r \in UNION {[1..n -> SomeReactions] : n \in 0..MaxReactions}}
    \cup {[species_names |-> <<H2, O2>>, reactions |-> r] :
        r \in {<<x>> : x \in AllReactions} \cup {<<PlainReaction, x>> : x \in AllReactions}}
    \cup {[species_names |-> s, reactions |-> r] :
        s \in SpeciesLists, r \in {<<>>, <<PlainReaction>>}}

(* factor: omitted, or a vector whose i-th entry is i + 1 *)
Factors == {None} \cup {Some([i \in 1..k |-> i + 1]) : k \in 0..(MaxReactions + 1)}

OutputPath == <<"c", "h", "e", "m", ".", "i", "n", "p">>
OldFile == <<[t |-> "old"]>>

(* ------------------------- the body of write --------------------------- *)
Line(t) == [t |-> t]

(* lines 192-195: the banner, built while title is still '' *)
section_break == Line("section_break")

(* lines 199-223: everything written before the loop over the reactions *)
header_lines(solution) ==
    <<section_break,
      Line("ELEMENTS"), Line("element_names"), Line("END"),
      Line("SPECIES"),
      [t |-> "species_names", text |-> build_species_string(solution.species_names)],
      Line("END"),
      section_break, section_break,
      Line("REACTIONS")>>

(* lines 235-241, 262-268, 271-277: the fixed-column main line *)
main_line(equation_string, arrhenius) ==
    [t |-> "main", equation |-> equation_string, A |-> arrhenius]

(* lines 278-284 *)
low_line(arr_low) == [t |-> "LOW", A |-> arr_low]

(* The line written parameter by parameter: it is cut where one is missing. *)
troe_partial(j) ==
    IF Len(j) >= 1
    THEN [lines |-> <<[t |-> "TROE", p |-> SubSeq(j, 1, IF Len(j) < 3 THEN Len(j) ELSE 3)]>>,
          error |-> "none"]
    ELSE [lines |-> <<>>, error |-> "none"]

(* lines 285-295: j[0], j[1], j[2] are read before anything is written;  *)
(* the IndexError of a missing one is caught and nothing is written.      *)
troe(j) ==
    IF Len(j) >= 3
    THEN [lines |-> <<[t |-> "TROE", p |-> <<j[1], j[2], j[3]>>]>>, error |-> "none"]
    ELSE [lines |-> <<>>, error |-> "none"]

(* The loop deleting nothing: the dict is rendered as it was read. *)
trim_efficiencies_unfiltered(efficiencies, species_names) == efficiencies

(* lines 243-247, 297-301: the entries of the second dict that are left   *)
(* after the loop over the first has deleted the unknown species           *)
trim_efficiencies(efficiencies, species_names) ==
    [s \in {x \in DOMAIN efficiencies : InSeq(x, species_names)} |-> efficiencies[s]]

(* lines 248-259, 302-314: str(trimmed_efficiencies) with its punctuation *)
(* replaced, written when the dict read first is not empty                *)
efficiency_lines(efficiencies, trimmed_efficiencies) ==
    IF DOMAIN efficiencies # {}
    THEN <<[t |-> "efficiencies", pairs |-> trimmed_efficiencies]>>
    ELSE <<>>

(* The DUPLICATE line written for the reactions that are not marked. *)
duplicate_lines_inverted(equation_object) ==
    IF equation_object.duplicate = TRUE THEN <<>> ELSE <<Line("DUPLICATE")>>

(* lines 315-318 *)
duplicate_lines(equation_object) ==
    IF equation_object.duplicate = TRUE THEN <<Line("DUPLICATE")>> ELSE <<>>

(* lines 233-259: the ThreeBodyReaction branch *)
three_body_branch(solution, equation_object, equation_string, uf) ==
    <<main_line(equation_string,
                build_arrhenius(equation_object, "ThreeBodyReaction", uf))>>
    \o efficiency_lines(equation_object.efficiencies,
           trim_efficiencies(equation_object.efficiencies, solution.species_names))

(* The branch with its type test misspelt: nothing is written. *)
elementary_branch_skipped(equation_object, equation_string, uf) == <<>>

(* lines 260-268: the ElementaryReaction branch *)
elementary_branch(equation_object, equation_string, uf) ==
    <<main_line(equation_string,
                build_arrhenius(equation_object, "ElementaryReaction", uf))>>

(* lines 269-314: the FalloffReaction branch; an error that leaves the    *)
(* try block ends the branch where it is raised                           *)
falloff_branch(solution, equation_object, equation_string, uf) ==
    LET third == troe(equation_object.parameters)
        first ==
            <<main_line(equation_string,
                        build_modified_arrhenius(equation_object, "high", uf)),
              low_line(build_modified_arrhenius(equation_object, "low", uf))>>
            \o third.lines
    IN  IF third.error # "none"
        THEN [lines |-> first, error |-> third.error]
        ELSE [lines |->
                first \o efficiency_lines(equation_object.efficiencies,
                             trim_efficiencies(equation_object.efficiencies,
                                               solution.species_names)),
              error |-> "none"]

(* lines 229-318: one pass of the loop, after uf has been read *)
reaction_lines(solution, equation_object, uf) ==
    LET equation_string == eliminate(equation_object.equation, " ")
        equation_type == equation_object.type
        three_body ==
            IF equation_type = "ThreeBodyReaction"
            THEN three_body_branch(solution, equation_object, equation_string, uf)
            ELSE <<>>
        elementary ==
            IF equation_type = "ElementaryReaction"
            THEN elementary_branch(equation_object, equation_string, uf)
            ELSE <<>>
        falloff ==
            IF equation_type = "FalloffReaction"
            THEN falloff_branch(solution, equation_object, equation_string, uf)
            ELSE [lines |-> <<>>, error |-> "none"]
    IN  IF falloff.error # "none"
        THEN [lines |-> three_body \o elementary \o falloff.lines,
              error |-> falloff.error]
        ELSE [lines |-> three_body \o elementary \o falloff.lines
                        \o duplicate_lines(equation_object),
              error |-> "none"]

(* The factor of the first reaction used for every reaction. *)
scale_factor_first(vector, index) ==
    IF index + 1 \in 1..Len(vector)
    THEN [uf |-> vector[1], error |-> "none"]
    ELSE [uf |-> 0, error |-> "IndexError"]

(* line 227: uf = factor[reac_index], reac_index counted from 0 *)
scale_factor(vector, index) ==
    IF index + 1 \in 1..Len(vector)
    THEN [uf |-> vector[index + 1], error |-> "none"]
    ELSE [uf |-> 0, error |-> "IndexError"]

(* lines 27-28: np.ones(solution.n_reactions) *)
default_factor(given, solution) ==
    IF given = None THEN Some([i \in 1..Len(solution.reactions) |-> 1]) ELSE given

(* The file opened without with: an exception leaves the handle open *)
(* and the buffered text unwritten.                                   *)
with_exit_leaking(text) ==
    IF text # <<>> /\ text[Len(text)].t = "END"
    THEN [f |-> "closed", disk |-> Some(text)]
    ELSE [f |-> "open", disk |-> Some(<<>>)]

(* line 34: leaving the with block, by return or by exception, closes the *)
(* file, and what was written through the handle is then the file's text  *)
with_exit(text) == [f |-> "closed", disk |-> Some(text)]

(* ------------------------------ actions -------------------------------- *)
Init ==
    /\ trimmed_solution \in Solutions
    /\ factor \in Factors
    /\ fname \in {None, Some(OutputPath)}
    /\ disk \in {None, Some(OldFile)}
    /\ f = "unopened"
    /\ written = <<>>
    /\ reac_index = 0
    /\ pc = "start"
    /\ err = "none"

(* The test of fname placed after the with statement. *)
RaiseFnameNoneAfterOpen ==
    /\ pc = "start"
    /\ fname = None
    /\ factor' = default_factor(factor, trimmed_solution)
    /\ f' = "closed"
    /\ disk' = Some(<<>>)
    /\ pc' = "raised"
    /\ err' = "fname is None"
    /\ UNCHANGED <<trimmed_solution, fname, written, reac_index>>

(* lines 23-31 *)
RaiseFnameNone ==
    /\ pc = "start"
    /\ fname = None
    /\ factor' = default_factor(factor, trimmed_solution)
    /\ pc' = "raised"
    /\ err' = "fname is None"
    /\ UNCHANGED <<trimmed_solution, fname, f, written, disk, reac_index>>

(* lines 23-34 *)
OpenFile ==
    /\ pc = "start"
    /\ fname # None
    /\ factor' = default_factor(factor, trimmed_solution)
    /\ f' = "open"
    /\ disk' = Some(<<>>)
    /\ pc' = "header"
    /\ UNCHANGED <<trimmed_solution, fname, written, reac_index, err>>

(* lines 192-223 *)
WriteHeader ==
    /\ pc = "header"
    /\ written' = written \o header_lines(trimmed_solution)
    /\ reac_index' = 0
    /\ pc' = "reactions"
    /\ UNCHANGED <<trimmed_solution, factor, fname, f, disk, err>>

(* lines 225-318: one reaction *)
WriteReaction ==
    /\ pc = "reactions"
    /\ reac_index < Len(trimmed_solution.reactions)
    /\ LET scale == scale_factor(factor.v, reac_index)
           body == reaction_lines(trimmed_solution,
                       trimmed_solution.reactions[reac_index + 1], scale.uf)
           failure == IF scale.error # "none" THEN scale.error ELSE body.error
           text == IF scale.error # "none" THEN written ELSE written \o body.lines
       IN  /\ written' = text
           /\ IF failure # "none"
              THEN /\ f' = with_exit(text).f
                   /\ disk' = with_exit(text).disk
                   /\ pc' = "raised"
                   /\ err' = failure
                   /\ UNCHANGED reac_index
              ELSE /\ reac_index' = reac_index + 1
                   /\ UNCHANGED <<f, disk, pc, err>>
    /\ UNCHANGED <<trimmed_solution, factor, fname>>

(* lines 319-320 *)
WriteEnd ==
    /\ pc = "reactions"
    /\ reac_index = Len(trimmed_solution.reactions)
    /\ written' = Append(written, Line("END"))
    /\ f' = with_exit(written').f
    /\ disk' = with_exit(written').disk
    /\ pc' = "returned"
    /\ UNCHANGED <<trimmed_solution, factor, fname, reac_index, err>>

Next ==
    \/ RaiseFnameNone
    \/ OpenFile
    \/ WriteHeader
    \/ WriteReaction
    \/ WriteEnd

Spec == Init /\ [][Next]_vars

(* --------------------- reading the emitted text ------------------------ *)
Reactions == trimmed_solution.reactions
NReactions == Len(Reactions)

IsReactionKind(r) == r.type \in {"ThreeBodyReaction", "FalloffReaction"}

(* The lines of the REACTIONS block: after its header, the END left out. *)
ReactionPart(text) ==
    IF \E i \in 1..Len(text) : text[i].t = "REACTIONS"
    THEN LET h == CHOOSE i \in 1..Len(text) : text[i].t = "REACTIONS"
         IN  SelectSeq(SubSeq(text, h + 1, Len(text)), LAMBDA l : l.t # "END")
    ELSE <<>>

(* The block cut before every main line: a main line and what follows it *)
(* up to the next main line.                                             *)
RECURSIVE Groups(_)
Groups(lines) ==
    IF lines = <<>> THEN <<>>
    ELSE LET last == lines[Len(lines)]
             g == Groups(SubSeq(lines, 1, Len(lines) - 1))
         IN  IF last.t = "main" \/ g = <<>>
             THEN Append(g, <<last>>)
             ELSE [g EXCEPT ![Len(g)] = Append(@, last)]

Emitted == Groups(ReactionPart(written))

CountOf(lines, t) == Len(SelectSeq(lines, LAMBDA l : l.t = t))

(* The run has failed for no other reason than a missing output path or  *)
(* a scale-factor vector with no entry for the reaction reached.          *)
OnlyArgumentFailures ==
    pc = "raised" =>
        \/ err = "fname is None" /\ fname = None
        \/ err = "IndexError" /\ reac_index >= Len(factor.v)

(* ------------------------------- claims -------------------------------- *)

(* C1: when write returns, the REACTIONS block of the file holds exactly  *)
(* one main line per reaction of the mechanism, and the k-th main line is *)
(* the line of the k-th reaction (its equation, spaces removed).          *)
C1_OneMainLinePerReactionInOrder ==
    pc = "returned" =>
        LET g == Groups(ReactionPart(disk.v))
        IN  /\ CountOf(ReactionPart(disk.v), "main") = NReactions
            /\ Len(g) = NReactions
            /\ \A k \in 1..Len(g) :
                  /\ g[k][1].t = "main"
                  /\ g[k][1].equation = eliminate(Reactions[k].equation, " ")

C1_Witness ==
    /\ pc = "returned"
    /\ NReactions = 2
    /\ Reactions[1].type = "FalloffReaction"
    /\ Reactions[2].type = "ElementaryReaction"

(* C2: with no output path the call raises, and it never opens, creates, *)
(* truncates or writes a file: the handle stays unopened and the file at  *)
(* the path stays as it was.                                              *)
C2_NoPathNoIO ==
    /\ [](fname = None => pc \in {"start", "raised"} /\ f = "unopened" /\ written = <<>>)
    /\ [][fname = None => (disk' = disk /\ f' = "unopened" /\ written' = <<>>
                            /\ pc' = "raised" /\ err' = "fname is None")]_vars

C2_Witness ==
    /\ pc = "raised"
    /\ fname = None
    /\ disk = Some(OldFile)
    /\ NReactions = 2

(* The species of an efficiency map that are in the species list. *)
KnownSpecies(r) ==
    {s \in DOMAIN r.efficiencies : InSeq(s, trimmed_solution.species_names)}

EfficiencyLinesOf(group) == SelectSeq(group, LAMBDA l : l.t = "efficiencies")

(* C3: a ThreeBody or Falloff reaction gets its efficiency line if and   *)
(* only if some third-body efficiency is left after the filtering to the  *)
(* species of the mechanism.                                              *)
C3_EfficiencyLineIffSomeRemain ==
    \A k \in 1..Len(Emitted) :
        IsReactionKind(Reactions[k]) =>
            (EfficiencyLinesOf(Emitted[k]) # <<>> <=> KnownSpecies(Reactions[k]) # {})

NotTroe(group) == SelectSeq(group, LAMBDA l : l.t # "TROE")

TableExponent(type, line, order) ==
    IF type = "ThreeBodyReaction" \/ line = "LOW" THEN 3 * order ELSE 3 * (order - 1)

InTable(type, order) ==
    IF type = "ThreeBodyReaction" THEN order \in 1..2 ELSE order \in 1..3

(* C7: the pre-exponential field of a reaction's main line is its        *)
(* pre-exponential factor times the scale factor at the reaction's own    *)
(* index times 10^k, k from the correction table (Elementary and Falloff  *)
(* main line 0/3/6 for order 1/2/3, ThreeBody 3/6 for order 1/2), and the *)
(* field of a Falloff LOW line is the low-pressure factor times the same  *)
(* scale factor times 10^3/10^6/10^9.                                     *)
C7_PreExponentialScaled ==
    \A k \in 1..Len(Emitted) :
        LET r == Reactions[k]
            uf == factor.v[k]
            order == SumValues(r.reactants, DOMAIN r.reactants)
            A == IF r.type = "FalloffReaction" THEN r.high_rate ELSE r.rate
        IN  InTable(r.type, order) =>
                /\ Emitted[k][1].A
                      = Format3E(Times10(A * uf, TableExponent(r.type, "main", order)))
                /\ r.type = "FalloffReaction" =>
                      /\ Emitted[k][2].t = "LOW"
                      /\ Emitted[k][2].A
                            = Format3E(Times10(r.low_rate * uf,
                                               TableExponent(r.type, "LOW", order)))

C7_Witness ==
    /\ pc = "returned"
    /\ NReactions = 2
    /\ factor.v = <<2, 3, 4>>
    /\ Reactions[2].type = "FalloffReaction"
    /\ Reactions[2].high_rate = 99995
    /\ SumValues(Reactions[2].reactants, DOMAIN Reactions[2].reactants) = 3
    /\ Emitted[2][1].A = [fmt |-> "3E", m |-> 3000, e |-> 11]
    /\ Emitted[2][2].A = [fmt |-> "3E", m |-> 2100, e |-> 10]

C9_PreExponentialAlwaysFormatted ==
    \A i \in 1..Len(written) :
        written[i].t \in {"main", "LOW"} => written[i].A.fmt = "3E"

IsSeparator(c) == c = " " \/ c = "\n"

(* The tokens of a text: its maximal runs without space or line break. *)
RECURSIVE TokensFrom(_, _, _, _)
TokensFrom(text, i, token, found) ==
    IF i > Len(text)
    THEN IF token = <<>> THEN found ELSE Append(found, token)
    ELSE IF IsSeparator(text[i])
    THEN TokensFrom(text, i + 1, <<>>, IF token = <<>> THEN found ELSE Append(found, token))
    ELSE TokensFrom(text, i + 1, Append(token, text[i]), found)

Tokens(text) == TokensFrom(text, 1, <<>>, <<>>)

(* C10: in the SPECIES block consecutive names are always separated by   *)
(* a space or a line break, and every name is there once, in input order: *)
(* the tokens of the block are the species names.                         *)
C10_SpeciesNamesSeparated ==
    \A i \in 1..Len(written) :
        written[i].t = "species_names" =>
            Tokens(written[i].text) = trimmed_solution.species_names

====
